---- MODULE Spec2Model ----
(***************************************************************************)
(* Model of multi_part_extractor.py: the archive classifier, the segment   *)
(* filter, the single-archive extractor, the recursive resolver, the       *)
(* payload relocator and the batch orchestrator (main), over a small       *)
(* in-memory file system.  File names are sequences of one-character       *)
(* strings so that suffix tests and the regular expressions are computed;   *)
(* a character outside ASCII is written as its code point ("U+0663").      *)
(***************************************************************************)
EXTENDS Integers, Sequences, FiniteSets, TLC

(***************************************************************************)
(* Characters and str.lower()                                              *)
(***************************************************************************)
UpperChars == <<"A","B","C","D","E","F","G","H","I","J","K","L","M",
                "N","O","P","Q","R","S","T","U","V","W","X","Y","Z">>

LowerChars == <<"a","b","c","d","e","f","g","h","i","j","k","l","m",
                "n","o","p","q","r","s","t","u","v","w","x","y","z">>

\* the patterns are str patterns, so \d matches every Unicode decimal digit
\* (category Nd): the ASCII digits and 65 other runs ZERO..NINE
AsciiDigits == {"0","1","2","3","4","5","6","7","8","9"}

ArabicIndicDigits ==
    <<"U+0660", "U+0661", "U+0662", "U+0663", "U+0664", "U+0665", "U+0666",
      "U+0667", "U+0668", "U+0669">>

\* the decimal digits outside ASCII, ARABIC-INDIC (U+0660) to SEGMENTED
\* (U+1FBF0), ten per run
NonAsciiDigits ==
   { "U+0660", "U+0661", "U+0662", "U+0663", "U+0664",
     "U+0665", "U+0666", "U+0667", "U+0668", "U+0669",
     "U+06F0", "U+06F1", "U+06F2", "U+06F3", "U+06F4",
     "U+06F5", "U+06F6", "U+06F7", "U+06F8", "U+06F9",
     "U+07C0", "U+07C1", "U+07C2", "U+07C3", "U+07C4",
     "U+07C5", "U+07C6", "U+07C7", "U+07C8", "U+07C9",
     "U+0966", "U+0967", "U+0968", "U+0969", "U+096A",
     "U+096B", "U+096C", "U+096D", "U+096E", "U+096F",
     "U+09E6", "U+09E7", "U+09E8", "U+09E9", "U+09EA",
     "U+09EB", "U+09EC", "U+09ED", "U+09EE", "U+09EF",
     "U+0A66", "U+0A67", "U+0A68", "U+0A69", "U+0A6A",
     "U+0A6B", "U+0A6C", "U+0A6D", "U+0A6E", "U+0A6F",
     "U+0AE6", "U+0AE7", "U+0AE8", "U+0AE9", "U+0AEA",
     "U+0AEB", "U+0AEC", "U+0AED", "U+0AEE", "U+0AEF",
     "U+0B66", "U+0B67", "U+0B68", "U+0B69", "U+0B6A",
     "U+0B6B", "U+0B6C", "U+0B6D", "U+0B6E", "U+0B6F",
     "U+0BE6", "U+0BE7", "U+0BE8", "U+0BE9", "U+0BEA",
     "U+0BEB", "U+0BEC", "U+0BED", "U+0BEE", "U+0BEF",
     "U+0C66", "U+0C67", "U+0C68", "U+0C69", "U+0C6A",
     "U+0C6B", "U+0C6C", "U+0C6D", "U+0C6E", "U+0C6F",
     "U+0CE6", "U+0CE7", "U+0CE8", "U+0CE9", "U+0CEA",
     "U+0CEB", "U+0CEC", "U+0CED", "U+0CEE", "U+0CEF",
     "U+0D66", "U+0D67", "U+0D68", "U+0D69", "U+0D6A",
     "U+0D6B", "U+0D6C", "U+0D6D", "U+0D6E", "U+0D6F",
     "U+0DE6", "U+0DE7", "U+0DE8", "U+0DE9", "U+0DEA",
     "U+0DEB", "U+0DEC", "U+0DED", "U+0DEE", "U+0DEF",
     "U+0E50", "U+0E51", "U+0E52", "U+0E53", "U+0E54",
     "U+0E55", "U+0E56", "U+0E57", "U+0E58", "U+0E59",
     "U+0ED0", "U+0ED1", "U+0ED2", "U+0ED3", "U+0ED4",
     "U+0ED5", "U+0ED6", "U+0ED7", "U+0ED8", "U+0ED9",
     "U+0F20", "U+0F21", "U+0F22", "U+0F23", "U+0F24",
     "U+0F25", "U+0F26", "U+0F27", "U+0F28", "U+0F29",
     "U+1040", "U+1041", "U+1042", "U+1043", "U+1044",
     "U+1045", "U+1046", "U+1047", "U+1048", "U+1049",
     "U+1090", "U+1091", "U+1092", "U+1093", "U+1094",
     "U+1095", "U+1096", "U+1097", "U+1098", "U+1099",
     "U+17E0", "U+17E1", "U+17E2", "U+17E3", "U+17E4",
     "U+17E5", "U+17E6", "U+17E7", "U+17E8", "U+17E9",
     "U+1810", "U+1811", "U+1812", "U+1813", "U+1814",
     "U+1815", "U+1816", "U+1817", "U+1818", "U+1819",
     "U+1946", "U+1947", "U+1948", "U+1949", "U+194A",
     "U+194B", "U+194C", "U+194D", "U+194E", "U+194F",
     "U+19D0", "U+19D1", "U+19D2", "U+19D3", "U+19D4",
     "U+19D5", "U+19D6", "U+19D7", "U+19D8", "U+19D9",
     "U+1A80", "U+1A81", "U+1A82", "U+1A83", "U+1A84",
     "U+1A85", "U+1A86", "U+1A87", "U+1A88", "U+1A89",
     "U+1A90", "U+1A91", "U+1A92", "U+1A93", "U+1A94",
     "U+1A95", "U+1A96", "U+1A97", "U+1A98", "U+1A99",
     "U+1B50", "U+1B51", "U+1B52", "U+1B53", "U+1B54",
     "U+1B55", "U+1B56", "U+1B57", "U+1B58", "U+1B59",
     "U+1BB0", "U+1BB1", "U+1BB2", "U+1BB3", "U+1BB4",
     "U+1BB5", "U+1BB6", "U+1BB7", "U+1BB8", "U+1BB9",
     "U+1C40", "U+1C41", "U+1C42", "U+1C43", "U+1C44",
     "U+1C45", "U+1C46", "U+1C47", "U+1C48", "U+1C49",
     "U+1C50", "U+1C51", "U+1C52", "U+1C53", "U+1C54",
     "U+1C55", "U+1C56", "U+1C57", "U+1C58", "U+1C59",
     "U+A620", "U+A621", "U+A622", "U+A623", "U+A624",
     "U+A625", "U+A626", "U+A627", "U+A628", "U+A629",
     "U+A8D0", "U+A8D1", "U+A8D2", "U+A8D3", "U+A8D4",
     "U+A8D5", "U+A8D6", "U+A8D7", "U+A8D8", "U+A8D9",
     "U+A900", "U+A901", "U+A902", "U+A903", "U+A904",
     "U+A905", "U+A906", "U+A907", "U+A908", "U+A909",
     "U+A9D0", "U+A9D1", "U+A9D2", "U+A9D3", "U+A9D4",
     "U+A9D5", "U+A9D6", "U+A9D7", "U+A9D8", "U+A9D9",
     "U+A9F0", "U+A9F1", "U+A9F2", "U+A9F3", "U+A9F4",
     "U+A9F5", "U+A9F6", "U+A9F7", "U+A9F8", "U+A9F9",
     "U+AA50", "U+AA51", "U+AA52", "U+AA53", "U+AA54",
     "U+AA55", "U+AA56", "U+AA57", "U+AA58", "U+AA59",
     "U+ABF0", "U+ABF1", "U+ABF2", "U+ABF3", "U+ABF4",
     "U+ABF5", "U+ABF6", "U+ABF7", "U+ABF8", "U+ABF9",
     "U+FF10", "U+FF11", "U+FF12", "U+FF13", "U+FF14",
     "U+FF15", "U+FF16", "U+FF17", "U+FF18", "U+FF19",
     "U+104A0", "U+104A1", "U+104A2", "U+104A3", "U+104A4",
     "U+104A5", "U+104A6", "U+104A7", "U+104A8", "U+104A9",
     "U+10D30", "U+10D31", "U+10D32", "U+10D33", "U+10D34",
     "U+10D35", "U+10D36", "U+10D37", "U+10D38", "U+10D39",
     "U+11066", "U+11067", "U+11068", "U+11069", "U+1106A",
     "U+1106B", "U+1106C", "U+1106D", "U+1106E", "U+1106F",
     "U+110F0", "U+110F1", "U+110F2", "U+110F3", "U+110F4",
     "U+110F5", "U+110F6", "U+110F7", "U+110F8", "U+110F9",
     "U+11136", "U+11137", "U+11138", "U+11139", "U+1113A",
     "U+1113B", "U+1113C", "U+1113D", "U+1113E", "U+1113F",
     "U+111D0", "U+111D1", "U+111D2", "U+111D3", "U+111D4",
     "U+111D5", "U+111D6", "U+111D7", "U+111D8", "U+111D9",
     "U+112F0", "U+112F1", "U+112F2", "U+112F3", "U+112F4",
     "U+112F5", "U+112F6", "U+112F7", "U+112F8", "U+112F9",
     "U+11450", "U+11451", "U+11452", "U+11453", "U+11454",
     "U+11455", "U+11456", "U+11457", "U+11458", "U+11459",
     "U+114D0", "U+114D1", "U+114D2", "U+114D3", "U+114D4",
     "U+114D5", "U+114D6", "U+114D7", "U+114D8", "U+114D9",
     "U+11650", "U+11651", "U+11652", "U+11653", "U+11654",
     "U+11655", "U+11656", "U+11657", "U+11658", "U+11659",
     "U+116C0", "U+116C1", "U+116C2", "U+116C3", "U+116C4",
     "U+116C5", "U+116C6", "U+116C7", "U+116C8", "U+116C9",
     "U+11730", "U+11731", "U+11732", "U+11733", "U+11734",
     "U+11735", "U+11736", "U+11737", "U+11738", "U+11739",
     "U+118E0", "U+118E1", "U+118E2", "U+118E3", "U+118E4",
     "U+118E5", "U+118E6", "U+118E7", "U+118E8", "U+118E9",
     "U+11950", "U+11951", "U+11952", "U+11953", "U+11954",
     "U+11955", "U+11956", "U+11957", "U+11958", "U+11959",
     "U+11C50", "U+11C51", "U+11C52", "U+11C53", "U+11C54",
     "U+11C55", "U+11C56", "U+11C57", "U+11C58", "U+11C59",
     "U+11D50", "U+11D51", "U+11D52", "U+11D53", "U+11D54",
     "U+11D55", "U+11D56", "U+11D57", "U+11D58", "U+11D59",
     "U+11DA0", "U+11DA1", "U+11DA2", "U+11DA3", "U+11DA4",
     "U+11DA5", "U+11DA6", "U+11DA7", "U+11DA8", "U+11DA9",
     "U+16A60", "U+16A61", "U+16A62", "U+16A63", "U+16A64",
     "U+16A65", "U+16A66", "U+16A67", "U+16A68", "U+16A69",
     "U+16AC0", "U+16AC1", "U+16AC2", "U+16AC3", "U+16AC4",
     "U+16AC5", "U+16AC6", "U+16AC7", "U+16AC8", "U+16AC9",
     "U+16B50", "U+16B51", "U+16B52", "U+16B53", "U+16B54",
     "U+16B55", "U+16B56", "U+16B57", "U+16B58", "U+16B59",
     "U+1D7CE", "U+1D7CF", "U+1D7D0", "U+1D7D1", "U+1D7D2",
     "U+1D7D3", "U+1D7D4", "U+1D7D5", "U+1D7D6", "U+1D7D7",
     "U+1D7D8", "U+1D7D9", "U+1D7DA", "U+1D7DB", "U+1D7DC",
     "U+1D7DD", "U+1D7DE", "U+1D7DF", "U+1D7E0", "U+1D7E1",
     "U+1D7E2", "U+1D7E3", "U+1D7E4", "U+1D7E5", "U+1D7E6",
     "U+1D7E7", "U+1D7E8", "U+1D7E9", "U+1D7EA", "U+1D7EB",
     "U+1D7EC", "U+1D7ED", "U+1D7EE", "U+1D7EF", "U+1D7F0",
     "U+1D7F1", "U+1D7F2", "U+1D7F3", "U+1D7F4", "U+1D7F5",
     "U+1D7F6", "U+1D7F7", "U+1D7F8", "U+1D7F9", "U+1D7FA",
     "U+1D7FB", "U+1D7FC", "U+1D7FD", "U+1D7FE", "U+1D7FF",
     "U+1E140", "U+1E141", "U+1E142", "U+1E143", "U+1E144",
     "U+1E145", "U+1E146", "U+1E147", "U+1E148", "U+1E149",
     "U+1E2F0", "U+1E2F1", "U+1E2F2", "U+1E2F3", "U+1E2F4",
     "U+1E2F5", "U+1E2F6", "U+1E2F7", "U+1E2F8", "U+1E2F9",
     "U+1E950", "U+1E951", "U+1E952", "U+1E953", "U+1E954",
     "U+1E955", "U+1E956", "U+1E957", "U+1E958", "U+1E959",
     "U+1FBF0", "U+1FBF1", "U+1FBF2", "U+1FBF3", "U+1FBF4",
     "U+1FBF5", "U+1FBF6", "U+1FBF7", "U+1FBF8", "U+1FBF9"}

Digits == AsciiDigits \cup NonAsciiDigits

NL == "\n"

LowerChar(c) ==
    IF \E k \in 1..Len(UpperChars) : UpperChars[k] = c
    THEN LowerChars[CHOOSE k \in 1..Len(UpperChars) : UpperChars[k] = c]
    ELSE c

\* str.lower() on a file name
Lower(s) == [k \in 1..Len(s) |-> LowerChar(s[k])]

\* str.endswith(suf)
EndsWith(s, suf) ==
    /\ Len(s) >= Len(suf)
    /\ \A k \in 1..Len(suf) : s[Len(s) - Len(suf) + k] = suf[k]

\* the last n characters are all matched by \d
DigitsAt(s, from, n) ==
    /\ from >= 1
    /\ from + n - 1 <= Len(s)
    /\ \A k \in from..(from + n - 1) : s[k] \in Digits

\* a literal of a pattern compiled with re.IGNORECASE matches at position p
LitAt(s, p, lit) ==
    /\ p >= 1
    /\ p + Len(lit) - 1 <= Len(s)
    /\ \A k \in 1..Len(lit) : LowerChar(s[p + k - 1]) = lit[k]

\* re '$' matches at the end of the string and just before a final newline:
\* the prefixes of s at whose end '$' can match
DollarEnds(s) ==
    {Len(s)} \cup (IF Len(s) >= 1 /\ s[Len(s)] = NL THEN {Len(s) - 1} ELSE {})

\* re.search(r'<lit>\d{n}$', s): literal followed by exactly n digits
LitDigitsEnd(s, lit, n) ==
    \E e \in DollarEnds(s) :
        /\ DigitsAt(s, e - n + 1, n)
        /\ LitAt(s, e - n - Len(lit) + 1, lit)

\* re.search(r'<lit>\d+$', s): literal followed by one or more digits
LitDigitsPlusEnd(s, lit) ==
    \E e \in DollarEnds(s) : \E n \in 1..Len(s) :
        /\ DigitsAt(s, e - n + 1, n)
        /\ LitAt(s, e - n - Len(lit) + 1, lit)

(***************************************************************************)
(* Archive classifier, segment filter, Path.stem, tool dispatch            *)
(***************************************************************************)
\* is_core_archive(file_path), on file_path.name
is_core_archive(name) ==
    LET filename == Lower(name) IN
       \/ EndsWith(filename, <<".","r","a","r">>)
       \/ EndsWith(filename, <<".","z","i","p">>)
       \/ EndsWith(filename, <<".","7","z">>)
       \/ LitDigitsEnd(filename, <<".","7","z",".","0","0","1">>, 0)

\* skip_regex.search(file.lower()) in move_non_archives
skip_regex_search(file) ==
    LET f == Lower(file) IN
       \/ LitDigitsPlusEnd(f, <<".","r">>)
       \/ LitDigitsEnd(f, <<".">>, 3)
       \/ LitDigitsEnd(f, <<".","z">>, 2)
       \/ LitDigitsEnd(f, <<".","7","z",".">>, 3)

\* position of the last "." of a name, 0 when there is none (str.rfind + 1)
LastDot(name) ==
    IF \E k \in 1..Len(name) : name[k] = "."
    THEN CHOOSE k \in 1..Len(name) :
            name[k] = "." /\ \A m \in (k + 1)..Len(name) : name[m] # "."
    ELSE 0

\* pathlib PurePath.stem: the name without its last suffix; a leading or a
\* trailing dot starts no suffix
Stem(name) ==
    LET d == LastDot(name) IN
    IF d > 1 /\ d < Len(name) THEN SubSeq(name, 1, d - 1) ELSE name

\* the command extract_archive builds for an archive name
Tool(name) ==
    LET filename == Lower(name) IN
    IF EndsWith(filename, <<".","z","i","p">>) THEN "unzip"
    ELSE IF EndsWith(filename, <<".","r","a","r">>) THEN "unrar"
    ELSE "7z"

(***************************************************************************)
(* The file universe.  A file is its name; an archive's content is a set   *)
(* of <<subdirectory, name>> entries ("" is the archive's root).           *)
(***************************************************************************)
t_zip    == <<"t",".","z","i","p">>
t_rar    == <<"t",".","r","a","r">>
x_7z_001 == <<"x",".","7","z",".","0","0","1">>
t_r01    == <<"t",".","r","0","1">>
d_zip    == <<"d",".","z","i","p">>
a_zip    == <<"a",".","z","i","p">>
b_rar    == <<"b",".","r","a","r">>
E_ZIP    == <<"E",".","Z","I","P">>
n_Z01    == <<"n",".","Z","0","1">>
x_7z_002 == <<"x",".","7","z",".","0","0","2">>
c_txt    == <<"c",".","t","x","t">>
p_txt    == <<"p",".","t","x","t">>
x_r3     == <<"x",".","r","U+0663">>

Root == ""
Sub  == "s"

\* what a complete extraction of the archive writes under its target
Content(name) ==
    CASE name = t_zip    -> {<<Root, a_zip>>}
      [] name = a_zip    -> {<<Root, b_rar>>}
      [] name = b_rar    -> {<<Root, c_txt>>}
      [] name = t_rar    -> {<<Root, c_txt>>, <<Sub, p_txt>>}
      [] name = x_7z_001 -> {<<Sub, E_ZIP>>, <<Root, x_7z_002>>}
      [] name = E_ZIP    -> {<<Root, n_Z01>>}
      [] OTHER           -> {}

\* names given to the classifier alone: a stem, an ending, then newlines
ClsStems == {<<>>, <<"x">>, <<"X", ".", "y">>}

ClsEndings ==
    {<<>>, <<".","r","a","r">>, <<".","z","i","p">>, <<".","7","z">>,
     <<".","7","z",".","0","0","1">>, <<".","R","A","R">>, <<".","Z","i","p">>,
     <<".","7","Z">>, <<".","7","Z",".","0","0","1">>, <<".","r","0","1">>,
     <<".","z","0","2">>, <<".","7","z",".","0","0","2">>,
     <<".","7","z",".","0","0","1","0">>, <<".","7","z",".","0","1">>,
     <<"r","a","r">>, <<".","r","a","r",".","t","x","t">>, <<".","t","x","t">>,
     <<".","z","i","p","x">>, <<".","7","z",".","0","0","U+0661">>,
     <<".","r","U+0660","U+0661">>, <<".","r","U+0969">>,
     <<".","U+FF10","U+FF10","U+FF11">>}

RECURSIVE Newlines(_)
Newlines(n) == IF n = 0 THEN <<>> ELSE <<NL>> \o Newlines(n - 1)

\* entries the folder given to mass_extractor may hold
dot_zip == <<".","z","i","p">>

MassFiles == {t_zip, t_rar, dot_zip, E_ZIP, t_r01}

\* entries the source directory may hold: core archives, a stray split
\* segment, and a directory whose name ends like an archive
SourceArchives == {t_zip, t_rar, x_7z_001}
SourceFiles == SourceArchives \cup {t_r01}
SourceDirs  == {d_zip}

AllNames == {t_zip, t_rar, x_7z_001, t_r01, d_zip, a_zip, b_rar, E_ZIP, n_Z01,
             x_7z_002, c_txt, p_txt, x_r3}

AllPaths == {Root, Sub} \X AllNames

\* the files a workspace handed directly to a function is made of: core
\* archives, split segments, a name that is both, and payload, at both levels
WsPaths == {<<Root, a_zip>>, <<Sub, E_ZIP>>, <<Root, x_7z_001>>, <<Root, t_r01>>,
            <<Sub, n_Z01>>, <<Root, c_txt>>, <<Sub, c_txt>>, <<Sub, p_txt>>, <<Root, x_r3>>}

\* the workspaces handed to recursively_extract: x.r<U+0663> matters to the
\* segment filter of move_non_archives only
ResolverPaths == WsPaths \ {<<Root, x_r3>>}

NameOf(path) == path[2]
DirOf(path)  == path[1]

(***************************************************************************)
(* Bounds                                                                  *)
(***************************************************************************)
MaxSrc    == 2   \* entries in the source directory
MaxCap    == 1   \* largest --num_files value tried
MaxRuns   == 2   \* consecutive runs of main over the same directories
MaxPasses == 2   \* the pass counter of the resolver saturates here
MaxWs     == 2   \* files in a workspace handed directly to a function
MaxNl     == 2   \* newline characters that may end a name given to the classifier

(***************************************************************************)
(* State                                                                   *)
(***************************************************************************)
VARIABLES
    entry,               \* the function the caller invoked: "main", "resolve", "relocate"
    source,              \* names of the regular files directly under input_folder
    source_dirs,         \* names of the directories directly under input_folder
    output,              \* output_folder: existing subfolder name -> set of paths in it
    tmp,                 \* paths of the files under tmp_dir
    max_files,           \* args.num_files
    processed_count,     \* main: processed_count
    all_core_archives,   \* main: the list built from iterdir()
    idx,                 \* main: position of the for loop in all_core_archives
    dest_folder,         \* name of the destination subfolder in use
    archives,            \* recursively_extract: candidates the for loop has not reached
    something_extracted, \* recursively_extract: something_extracted
    todo,                \* move_non_archives: files os.walk has not yielded yet
    pc,                  \* control position
    run,                 \* number of the current run of main
    calls,               \* extract_archive invocations of the current run or call
    ended,               \* how each finished run of main ended
    succ,                \* top-level extractions of this run that succeeded
    top_outcome,         \* outcome of the top-level extraction of the current archive
    out0,                \* subfolders of output_folder when this run started
    rstate,              \* recursively_extract: "idle", "running", "returned", "raised"
    passes,              \* recursively_extract: for-loops started (saturating)
    rx0,                 \* files under tmp_dir when recursively_extract started
    pass_core,           \* core files under tmp_dir when the current pass started
    del_failed,          \* some unlink of this recursively_extract call failed
    ext_failed,          \* some extraction of this recursively_extract call failed
    mstate,              \* move_non_archives: "idle", "running", "finished", "raised"
    ws0,                 \* files under tmp_dir when move_non_archives started
    abort_cause,         \* the statement whose exception ended the function
    n_ext,               \* recursively_extract: extract_archive calls made (saturating)
    top_failed,          \* <<run, archive>> of the top-level extractions that failed
    fpath,               \* is_core_archive: the path it is given, <<directory, name>>
    fcore,               \* is_core_archive: the value it returned
    skipped_count,       \* extract_archives: skipped_count
    num_files,           \* extract_archives: num_files, <<>> for None, <<n>> for int n
    archive_files,       \* extract_archives: archive_files
    passed               \* extract_archives: the names passed to extract_archive, in order

vars == <<entry, source, source_dirs, output, tmp, max_files, processed_count,
          all_core_archives, idx, dest_folder, archives, something_extracted,
          todo, pc, run, calls, ended, succ, top_outcome, top_failed, out0, rstate, passes, rx0,
          pass_core, del_failed, ext_failed, mstate, ws0, abort_cause, n_ext,
          fpath, fcore, skipped_count, num_files, archive_files, passed>>

\* what only mass_extractor's extract_archives uses
massVars == <<skipped_count, num_files, archive_files, passed>>

\* what only the classifier call and mass_extractor's extract_archives use
callVars == <<entry, fpath, fcore, massVars>>

fsVars   == <<source, source_dirs, output, tmp>>
mainVars == <<max_files, processed_count, all_core_archives, idx, run, ended,
              succ, top_outcome, top_failed, out0>>
rxVars   == <<archives, something_extracted, rstate, passes, rx0, pass_core,
              del_failed, ext_failed, n_ext>>
mvVars   == <<todo, mstate, ws0>>

(***************************************************************************)
(* Helpers                                                                 *)
(***************************************************************************)
Perms(S) ==
    {q \in [1..Cardinality(S) -> S] :
        \A a, b \in 1..Cardinality(S) : a # b => q[a] # q[b]}

Min(a, b) == IF a < b THEN a ELSE b

RECURSIVE SmallSubsets(_, _)
\* the subsets of S with at most n elements
SmallSubsets(S, n) ==
    IF n = 0 THEN {{}}
    ELSE LET prev == SmallSubsets(S, n - 1)
         IN  prev \cup {W \cup {x} : W \in prev, x \in S}

\* outcomes of one run of the external tool and what it wrote:
\*   "ok"    exit status 0, the whole content written
\*   "fail"  non-zero exit status (CalledProcessError): the tool wrote
\*           nothing, a part of the content, the whole content (a warning),
\*           or members of the archives stored inside a damaged archive
\*   "raise" subprocess.run raised another error (the tool could not be
\*           started), nothing written
Outcomes == {"ok", "fail", "raise"}

RECURSIVE Deep(_)
\* the content of an archive and of the archives stored inside it
Deep(name) ==
    LET inner == {NameOf(f) : f \in Content(name)}
    IN  Content(name) \cup UNION {Deep(n) : n \in inner}

Written(name, o) ==
    CASE o = "ok"    -> {Content(name)}
      [] o = "fail"  -> SUBSET Deep(name)
      [] o = "raise" -> {{}}

\* the files under target after the tool wrote w (the tools overwrite)
extract_archive(target, w) == target \cup w

\* variant of the scan that does not descend into subdirectories
ScanCore_rootOnly(ws) ==
    {f \in ws : DirOf(f) = Root /\ is_core_archive(NameOf(f))}

\* recursively_extract: the os.walk that gathers the core archives
ScanCore(ws) == {f \in ws : is_core_archive(NameOf(f))}

\* variant of the top-level selection that takes every regular file
TopLevel_anyFile(files, dirs) == {f \in files \cup dirs : f \in files}

\* main: the entries of iterdir() that are files and core archives
TopLevel(files, dirs) ==
    {f \in files \cup dirs : f \in files /\ is_core_archive(f)}

\* variant of the cap test that never stops the loop
CapReached_never(max, count) == FALSE

\* main: if max_files and processed_count >= max_files
CapReached(max, count) == max # 0 /\ count >= max

\* variant of the existence test that never finds the folder
DestExists_never(out, name) == FALSE

\* main: dest_folder.exists()
DestExists(out, name) == name \in DOMAIN out

\* os.walk is top-down: the files of tmp_dir itself before those of a subdirectory
WalkNext(rest) ==
    IF \E f \in rest : DirOf(f) = Root
    THEN {f \in rest : DirOf(f) = Root}
    ELSE rest

\* variant of the two tests without the core-archive test
Skipped_noCore(name) == skip_regex_search(name)

\* move_non_archives: the two tests that make it leave a file where it is
Skipped(name) == skip_regex_search(name) \/ is_core_archive(name)

\* shutil.move into an existing directory refuses an existing target
MoveCollides(folder, name) == <<Root, name>> \in folder

Current == all_core_archives[idx]

(***************************************************************************)
(* Initial states                                                          *)
(***************************************************************************)
NoFolder   == <<>>
DirectDest == <<"o","u","t">>   \* dest_folder of a direct call

\* no function of multi_part_extractor.main has been entered
IdleLocals ==
    /\ processed_count = 0
    /\ all_core_archives = <<>>
    /\ idx = 1
    /\ archives = {}
    /\ something_extracted = FALSE
    /\ todo = {}
    /\ run = 1
    /\ calls = {}
    /\ ended = <<>>
    /\ succ = 0
    /\ top_outcome = "none"
    /\ rstate = "idle"
    /\ passes = 0
    /\ rx0 = {}
    /\ pass_core = 0
    /\ del_failed = FALSE
    /\ ext_failed = FALSE
    /\ mstate = "idle"
    /\ ws0 = {}
    /\ abort_cause = "none"
    /\ n_ext = 0
    /\ top_failed = {}

\* extract_archives of mass_extractor has not been entered
IdleMass ==
    /\ skipped_count = 0
    /\ num_files = <<>>
    /\ archive_files = <<>>
    /\ passed = <<>>

Idle ==
    /\ IdleLocals
    /\ fpath = <<Root, <<>>>>
    /\ fcore = FALSE
    /\ IdleMass

\* main is started on a source directory, an output directory that may hold a
\* subfolder of an earlier run, and a workspace that may hold a leftover
InitMain ==
    /\ entry = "main"
    /\ \E A \in SmallSubsets(SourceArchives, MaxSrc) : source = A \cup {t_r01}
    /\ source_dirs = SourceDirs
    /\ \E pre \in SUBSET {Stem(f) : f \in TopLevel(source, source_dirs)} :
          /\ Cardinality(pre) <= 1
          /\ output = [d \in pre |-> {}]
    /\ tmp \in {{}, {<<Root, b_rar>>}}
    /\ max_files \in 0..MaxCap
    /\ dest_folder = NoFolder
    /\ out0 = DOMAIN output
    /\ pc = "start"
    /\ Idle

\* recursively_extract is called on any workspace and an empty destination
InitResolve ==
    /\ entry = "resolve"
    /\ source = {}
    /\ source_dirs = {}
    /\ tmp \in SmallSubsets(ResolverPaths, MaxWs)
    /\ output = [d \in {DirectDest} |-> {}]
    /\ max_files = 0
    /\ dest_folder = DirectDest
    /\ out0 = {DirectDest}
    /\ pc = "resolve"
    /\ Idle

\* move_non_archives is called on any workspace and a destination that is
\* empty or already holds a file
InitRelocate ==
    /\ entry = "relocate"
    /\ source = {}
    /\ source_dirs = {}
    /\ tmp \in SmallSubsets(WsPaths, MaxWs)
    /\ \E d0 \in {{}, {<<Root, c_txt>>}} : output = [d \in {DirectDest} |-> d0]
    /\ max_files = 0
    /\ dest_folder = DirectDest
    /\ out0 = {DirectDest}
    /\ pc = "relocate"
    /\ Idle

(***************************************************************************)
(* main                                                                    *)
(***************************************************************************)
\* an exception leaves the function; in main nothing catches it
Raise(cause) ==
    /\ pc' = IF entry = "main" THEN "aborted" ELSE "raised"
    /\ ended' = IF entry = "main" THEN Append(ended, "aborted") ELSE ended
    /\ abort_cause' = cause

\* the locals of the two calls are gone once they have returned
Forgotten ==
    /\ archives' = {}
    /\ something_extracted' = FALSE
    /\ rstate' = "idle"
    /\ passes' = 0
    /\ rx0' = {}
    /\ pass_core' = 0
    /\ del_failed' = FALSE
    /\ ext_failed' = FALSE
    /\ todo' = {}
    /\ mstate' = "idle"
    /\ ws0' = {}
    /\ top_outcome' = "none"
    /\ n_ext' = 0

\* lines 164-180: a new process lists the core archives of input_folder, in
\* iterdir() order
MainStart ==
    /\ pc = "start"
    /\ \E order \in Perms(TopLevel(source, source_dirs)) :
          all_core_archives' = order
    /\ processed_count' = 0
    /\ idx' = 1
    /\ succ' = 0
    /\ out0' = DOMAIN output
    /\ calls' = {}
    /\ dest_folder' = NoFolder
    /\ Forgotten
    /\ abort_cause' = "none"
    /\ pc' = "loop"
    /\ UNCHANGED <<callVars, fsVars, max_files, run, ended, top_failed>>

\* line 182 exhausted, line 223: the summary
LoopExit ==
    /\ pc = "loop"
    /\ idx > Len(all_core_archives)
    /\ pc' = "done"
    /\ ended' = Append(ended, "exhausted")
    /\ UNCHANGED <<callVars, fsVars, max_files, processed_count, all_core_archives,
                   idx, dest_folder, run, calls, succ, top_outcome, top_failed, out0, rxVars, mvVars,
                   abort_cause>>

\* lines 183-185: the cap is reached, break, then the summary
CapBreak ==
    /\ pc = "loop"
    /\ idx <= Len(all_core_archives)
    /\ CapReached(max_files, processed_count)
    /\ pc' = "done"
    /\ ended' = Append(ended, "cap")
    /\ UNCHANGED <<callVars, fsVars, max_files, processed_count, all_core_archives,
                   idx, dest_folder, run, calls, succ, top_outcome, top_failed, out0, rxVars, mvVars,
                   abort_cause>>

\* variant of the skip that counts the skipped archive as processed
SkipExisting_counting ==
    /\ pc = "loop"
    /\ idx <= Len(all_core_archives)
    /\ ~CapReached(max_files, processed_count)
    /\ DestExists(output, Stem(Current))
    /\ idx' = idx + 1
    /\ processed_count' = processed_count + 1
    /\ UNCHANGED <<callVars, fsVars, max_files, all_core_archives,
                   dest_folder, run, calls, ended, succ, top_outcome, top_failed, out0, rxVars, mvVars,
                   pc, abort_cause>>

\* lines 190-195: the destination subfolder exists, continue
SkipExisting ==
    /\ pc = "loop"
    /\ idx <= Len(all_core_archives)
    /\ ~CapReached(max_files, processed_count)
    /\ DestExists(output, Stem(Current))
    /\ idx' = idx + 1
    /\ UNCHANGED <<callVars, fsVars, max_files, processed_count, all_core_archives,
                   dest_folder, run, calls, ended, succ, top_outcome, top_failed, out0, rxVars, mvVars,
                   pc, abort_cause>>

\* variant of the preparation that keeps what the workspace holds
Prepare_keeping ==
    /\ pc = "loop"
    /\ idx <= Len(all_core_archives)
    /\ ~CapReached(max_files, processed_count)
    /\ ~DestExists(output, Stem(Current))
    /\ tmp' = tmp
    /\ dest_folder' = Stem(Current)
    /\ output' = [d \in DOMAIN output \cup {Stem(Current)} |->
                    IF d \in DOMAIN output THEN output[d] ELSE {}]
    /\ rstate' = "idle"
    /\ mstate' = "idle"
    /\ pc' = "extract_top"
    /\ UNCHANGED <<callVars, source, source_dirs, mainVars, archives,
                   something_extracted, passes, rx0, pass_core, del_failed, ext_failed,
                   n_ext, todo, ws0, calls, abort_cause>>

\* lines 199-204: empty the workspace and create the destination subfolder
Prepare ==
    /\ pc = "loop"
    /\ idx <= Len(all_core_archives)
    /\ ~CapReached(max_files, processed_count)
    /\ ~DestExists(output, Stem(Current))
    /\ tmp' = {}
    /\ dest_folder' = Stem(Current)
    /\ output' = [d \in DOMAIN output \cup {Stem(Current)} |->
                    IF d \in DOMAIN output THEN output[d] ELSE {}]
    /\ rstate' = "idle"
    /\ mstate' = "idle"
    /\ pc' = "extract_top"
    /\ UNCHANGED <<callVars, source, source_dirs, mainVars, archives,
                   something_extracted, passes, rx0, pass_core, del_failed, ext_failed,
                   n_ext, todo, ws0, calls, abort_cause>>

\* line 201: shutil.rmtree(tmp_dir) without ignore_errors removes the
\* entries one by one and raises at the first it cannot remove: a file (it
\* and the files not reached yet stay), or a subdirectory or tmp_dir itself
\* once their files are gone, so also when the workspace holds no file
PrepareRaise ==
    /\ pc = "loop"
    /\ idx <= Len(all_core_archives)
    /\ ~CapReached(max_files, processed_count)
    /\ ~DestExists(output, Stem(Current))
    /\ tmp' \in SUBSET tmp
    /\ Raise("rmtree")
    /\ UNCHANGED <<callVars, source, source_dirs, output, max_files, processed_count, all_core_archives,
                   idx, dest_folder, run, calls, succ, top_outcome, top_failed, out0, rxVars, mvVars>>

\* variant of the top-level extraction that unlinks the archive it has
\* extracted, as the resolver does with a nested archive
ExtractTop_consuming ==
    /\ pc = "extract_top"
    /\ \E o \in Outcomes : \E w \in Written(Current, o) :
          /\ tmp' = extract_archive(tmp, w)
          /\ calls' = calls \cup {[top |-> TRUE, name |-> Current,
                                   tool |-> Tool(Current)]}
          /\ succ' = IF o = "ok" THEN succ + 1 ELSE succ
          /\ top_outcome' = o
          /\ top_failed' = IF o = "ok" THEN top_failed
                                       ELSE top_failed \cup {<<run, Current>>}
          /\ source' = IF o = "ok" THEN source \ {Current} ELSE source
          /\ IF o = "raise"
             THEN Raise("extract")
             ELSE pc' = "resolve" /\ UNCHANGED <<ended, abort_cause>>
    /\ UNCHANGED <<callVars, source_dirs, output, max_files,
                   processed_count, all_core_archives, idx, dest_folder, run,
                   out0, rxVars, mvVars>>

\* variant of the top-level extraction that removes the destination
\* subfolder again when the extraction did not succeed
ExtractTop_rollback ==
    /\ pc = "extract_top"
    /\ \E o \in Outcomes : \E w \in Written(Current, o) :
          /\ tmp' = extract_archive(tmp, w)
          /\ calls' = calls \cup {[top |-> TRUE, name |-> Current,
                                   tool |-> Tool(Current)]}
          /\ succ' = IF o = "ok" THEN succ + 1 ELSE succ
          /\ top_outcome' = o
          /\ top_failed' = IF o = "ok" THEN top_failed
                                       ELSE top_failed \cup {<<run, Current>>}
          /\ output' = IF o = "ok" THEN output
                        ELSE [d \in DOMAIN output \ {dest_folder} |-> output[d]]
          /\ IF o = "raise"
             THEN Raise("extract")
             ELSE pc' = "resolve" /\ UNCHANGED <<ended, abort_cause>>
    /\ UNCHANGED <<callVars, source, source_dirs, max_files,
                   processed_count, all_core_archives, idx, dest_folder, run,
                   out0, rxVars, mvVars>>

\* line 208: extract_archive(archive_path, tmp_dir)
ExtractTop ==
    /\ pc = "extract_top"
    /\ \E o \in Outcomes : \E w \in Written(Current, o) :
          /\ tmp' = extract_archive(tmp, w)
          /\ calls' = calls \cup {[top |-> TRUE, name |-> Current,
                                   tool |-> Tool(Current)]}
          /\ succ' = IF o = "ok" THEN succ + 1 ELSE succ
          /\ top_outcome' = o
          /\ top_failed' = IF o = "ok" THEN top_failed
                                       ELSE top_failed \cup {<<run, Current>>}
          /\ IF o = "raise"
             THEN Raise("extract")
             ELSE pc' = "resolve" /\ UNCHANGED <<ended, abort_cause>>
    /\ UNCHANGED <<callVars, source, source_dirs, output, max_files,
                   processed_count, all_core_archives, idx, dest_folder, run,
                   out0, rxVars, mvVars>>

\* lines 218-221: remove the workspace (errors ignored: every file that
\* cannot be removed stays), count the archive; of the calls made for this
\* archive only the top-level one is remembered
Cleanup ==
    /\ pc = "cleanup"
    /\ tmp' \in SUBSET tmp
    /\ processed_count' = processed_count + 1
    /\ idx' = idx + 1
    /\ pc' = "loop"
    /\ Forgotten
    /\ UNCHANGED <<callVars, source, source_dirs, output, max_files,
                   all_core_archives, dest_folder, run, ended, succ,
                   top_failed, out0, abort_cause>>
    /\ calls' = {c \in calls : c.top}

\* the user starts main again with the same arguments
Rerun ==
    /\ entry = "main"
    /\ pc \in {"done", "aborted"}
    /\ run < MaxRuns
    /\ run' = run + 1
    /\ pc' = "start"
    /\ UNCHANGED <<callVars, fsVars, max_files, processed_count, all_core_archives,
                   idx, dest_folder, calls, ended, succ, top_outcome, top_failed, out0, rxVars, mvVars,
                   abort_cause>>

(***************************************************************************)
(* recursively_extract                                                     *)
(***************************************************************************)
\* passes and n_ext observe a direct call of recursively_extract: they count,
\* saturating at cap, when the function is the entry point; the runs of main
\* do not carry them
Counted(c, cap) == IF entry = "main" THEN c ELSE Min(c + 1, cap)

\* line 137: the call starts
ResolverEnter ==
    /\ pc = "resolve"
    /\ something_extracted' = TRUE
    /\ archives' = {}
    /\ rstate' = "running"
    /\ passes' = 0
    /\ rx0' = tmp
    /\ pass_core' = 0
    /\ del_failed' = FALSE
    /\ ext_failed' = FALSE
    /\ n_ext' = 0
    /\ pc' = "scan"
    /\ UNCHANGED <<callVars, fsVars, mainVars, dest_folder, calls, mvVars,
                   abort_cause>>

\* lines 138-150: the while test and the scan; the function returns when the
\* flag is down or the scan finds nothing
ResolverScan ==
    /\ pc = "scan"
    /\ LET found == ScanCore(tmp) IN
       IF something_extracted /\ found # {}
       THEN /\ archives' = found
            /\ something_extracted' = FALSE
            /\ passes' = Counted(passes, MaxPasses)
            /\ pass_core' = Cardinality(found)
            /\ rstate' = rstate
            /\ pc' = "rx"
       ELSE /\ archives' = {}
            /\ something_extracted' = FALSE
            /\ rstate' = "returned"
            /\ pc' = IF entry = "main" THEN "relocate" ELSE "returned"
            /\ UNCHANGED <<passes, pass_core>>
    /\ UNCHANGED <<callVars, fsVars, mainVars, dest_folder, calls, rx0,
                   del_failed, ext_failed, n_ext, mvVars, abort_cause>>

\* variant of the body whose unlink is not guarded: a failed deletion ends
\* the function
ResolverStep_unguarded ==
    /\ pc = "rx"
    /\ \E a \in archives : \E o \in Outcomes \ {"raise"} :
       \E w \in Written(NameOf(a), o) : \E del \in BOOLEAN :
          /\ calls' = calls \cup {[top |-> FALSE, name |-> NameOf(a),
                                   tool |-> Tool(NameOf(a))]}
          /\ output' = [output EXCEPT
                          ![dest_folder] = extract_archive(@, w)]
          /\ tmp' = IF del THEN tmp \ {a} ELSE tmp
          /\ del_failed' = (del_failed \/ ~del)
          /\ ext_failed' = (ext_failed \/ o # "ok")
          /\ n_ext' = Counted(n_ext, MaxWs + 1)
          /\ something_extracted' = TRUE
          /\ archives' = archives \ {a}
          /\ pc' = IF ~del THEN "raised"
                   ELSE IF archives' = {} THEN "scan" ELSE "rx"
    /\ UNCHANGED <<callVars, source, source_dirs, mainVars, dest_folder, rstate,
                   passes, rx0, pass_core, mvVars, abort_cause>>

\* variant of the body that extracts next to the archive, into the workspace
ResolverStep_inPlace ==
    /\ pc = "rx"
    /\ \E a \in archives : \E o \in Outcomes \ {"raise"} :
       \E w \in Written(NameOf(a), o) : \E del \in BOOLEAN :
          /\ calls' = calls \cup {[top |-> FALSE, name |-> NameOf(a),
                                   tool |-> Tool(NameOf(a))]}
          /\ tmp' = IF del THEN extract_archive(tmp, w) \ {a}
                           ELSE extract_archive(tmp, w)
          /\ output' = output
          /\ del_failed' = (del_failed \/ ~del)
          /\ ext_failed' = (ext_failed \/ o # "ok")
          /\ n_ext' = Counted(n_ext, MaxWs + 1)
          /\ something_extracted' = TRUE
          /\ archives' = archives \ {a}
          /\ pc' = IF archives' = {} THEN "scan" ELSE "rx"
    /\ UNCHANGED <<callVars, source, source_dirs, mainVars, dest_folder, rstate,
                   passes, rx0, pass_core, mvVars, abort_cause>>

\* lines 152-160, one iteration of the for loop: extract the candidate into
\* dest_folder, then unlink it (a failure of unlink is caught)
ResolverStep ==
    /\ pc = "rx"
    /\ \E a \in archives : \E o \in Outcomes \ {"raise"} :
       \E w \in Written(NameOf(a), o) : \E del \in BOOLEAN :
          /\ calls' = calls \cup {[top |-> FALSE, name |-> NameOf(a),
                                   tool |-> Tool(NameOf(a))]}
          /\ output' = [output EXCEPT
                          ![dest_folder] = extract_archive(@, w)]
          /\ tmp' = IF del THEN tmp \ {a} ELSE tmp
          /\ del_failed' = (del_failed \/ ~del)
          /\ ext_failed' = (ext_failed \/ o # "ok")
          /\ n_ext' = Counted(n_ext, MaxWs + 1)
          /\ something_extracted' = TRUE
          /\ archives' = archives \ {a}
          /\ pc' = IF archives' = {} THEN "scan" ELSE "rx"
    /\ UNCHANGED <<callVars, source, source_dirs, mainVars, dest_folder, rstate,
                   passes, rx0, pass_core, mvVars, abort_cause>>

\* line 154 when subprocess.run raises an error other than
\* CalledProcessError: it leaves extract_archive and recursively_extract
ResolverRaise ==
    /\ pc = "rx"
    /\ \E a \in archives :
          calls' = calls \cup {[top |-> FALSE, name |-> NameOf(a),
                                   tool |-> Tool(NameOf(a))]}
    /\ rstate' = "raised"
    /\ n_ext' = Counted(n_ext, MaxWs + 1)
    /\ Raise("extract")
    /\ UNCHANGED <<callVars, fsVars, max_files, processed_count, all_core_archives,
                   idx, run, succ, top_outcome, top_failed, out0, dest_folder, archives,
                   something_extracted, passes, rx0, pass_core, del_failed, ext_failed,
                   mvVars>>

(***************************************************************************)
(* move_non_archives                                                       *)
(***************************************************************************)
\* line 108: the walk starts; in main recursively_extract has returned and
\* its locals are gone
RelocateEnter ==
    /\ pc = "relocate"
    /\ todo' = tmp
    /\ ws0' = tmp
    /\ mstate' = "running"
    /\ pc' = "move"
    /\ IF entry = "main"
       THEN /\ archives' = {}
            /\ passes' = 0
            /\ rx0' = {}
            /\ pass_core' = 0
            /\ del_failed' = FALSE
            /\ n_ext' = 0
            /\ UNCHANGED <<something_extracted, rstate, ext_failed>>
       ELSE UNCHANGED rxVars
    /\ UNCHANGED <<callVars, fsVars, mainVars, dest_folder, calls,
                   abort_cause>>

\* lines 115-124: a split segment or a core archive stays where it is
RelocateSkip ==
    /\ pc = "move"
    /\ \E f \in WalkNext(todo) :
          /\ Skipped(NameOf(f))
          /\ todo' = todo \ {f}
    /\ UNCHANGED <<callVars, fsVars, mainVars, dest_folder, calls, rxVars,
                   mstate, ws0, pc, abort_cause>>

\* lines 126-129: any other file is moved to dest_dir/<its name>
RelocateMove ==
    /\ pc = "move"
    /\ \E f \in WalkNext(todo) :
          /\ ~Skipped(NameOf(f))
          /\ ~MoveCollides(output[dest_folder], NameOf(f))
          /\ tmp' = tmp \ {f}
          /\ output' = [output EXCEPT ![dest_folder] = @ \cup {<<Root, NameOf(f)>>}]
          /\ todo' = todo \ {f}
    /\ UNCHANGED <<callVars, source, source_dirs, mainVars, dest_folder, calls,
                   rxVars, mstate, ws0, pc, abort_cause>>

\* line 129: shutil.move raises and nothing catches it: the target exists
\* (nothing is written), or the move itself fails; when the rename fails
\* shutil.move copies the file and then unlinks the source, so the failure
\* may leave the copy in dest_dir with the source still in the workspace
RelocateRaise ==
    /\ pc = "move"
    /\ \E f \in WalkNext(todo) :
          /\ ~Skipped(NameOf(f))
          /\ IF MoveCollides(output[dest_folder], NameOf(f))
             THEN Raise("move_exists") /\ output' = output
             ELSE /\ Raise("move")
                  /\ \E copied \in BOOLEAN :
                        output' = IF copied
                                  THEN [output EXCEPT ![dest_folder] =
                                          @ \cup {<<Root, NameOf(f)>>}]
                                  ELSE output
    /\ mstate' = "raised"
    /\ UNCHANGED <<callVars, source, source_dirs, tmp, max_files, processed_count, all_core_archives,
                   idx, run, succ, top_outcome, top_failed, out0, dest_folder, calls, rxVars, todo, ws0>>

\* the walk is exhausted: move_non_archives returns
RelocateReturn ==
    /\ pc = "move"
    /\ todo = {}
    /\ mstate' = "finished"
    /\ pc' = IF entry = "main" THEN "cleanup" ELSE "returned"
    /\ UNCHANGED <<callVars, fsVars, mainVars, dest_folder, calls, rxVars, todo,
                   ws0, abort_cause>>

(***************************************************************************)
(* is_core_archive called on one path                                      *)
(***************************************************************************)
InitClassify ==
    /\ entry = "classify"
    /\ source = {}
    /\ source_dirs = {}
    /\ tmp = {}
    /\ output = [d \in {} |-> {}]
    /\ max_files = 0
    /\ dest_folder = NoFolder
    /\ out0 = {}
    /\ pc = "classify"
    /\ IdleLocals
    /\ \E d \in {Root, Sub} : \E st \in ClsStems : \E e \in ClsEndings :
       \E n \in 0..MaxNl :
          fpath = <<d, st \o e \o Newlines(n)>>
    /\ fcore = FALSE
    /\ IdleMass

\* lines 51-63: the classifier looks at filepath.name only
Classify ==
    /\ pc = "classify"
    /\ fcore' = is_core_archive(NameOf(fpath))
    /\ pc' = "returned"
    /\ UNCHANGED <<entry, fpath, massVars, fsVars, mainVars, dest_folder,
                   calls, rxVars, mvVars, abort_cause>>

(***************************************************************************)
(* mass_extractor.extract_archives                                         *)
(***************************************************************************)
\* the characters of the names in code point order, as str comparison uses
CodeOrder ==
    <<NL, ".", "0", "1", "2", "3", "4", "5", "6", "7", "8", "9",
      "A", "B", "C", "D", "E", "F", "G", "H", "I", "J", "K", "L", "M",
      "N", "O", "P", "Q", "R", "S", "T", "U", "V", "W", "X", "Y", "Z",
      "a", "b", "c", "d", "e", "f", "g", "h", "i", "j", "k", "l", "m",
      "n", "o", "p", "q", "r", "s", "t", "u", "v", "w", "x", "y", "z">>
        \o ArabicIndicDigits

Code(c) == CHOOSE i \in 1..Len(CodeOrder) : CodeOrder[i] = c

\* a < b for two names, the order list.sort() puts the paths of one folder in
NameLess(a, b) ==
    \E k \in 1..(Len(a) + 1) :
        /\ k <= Len(b)
        /\ \A j \in 1..(k - 1) : a[j] = b[j]
        /\ (k = Len(a) + 1 \/ Code(a[k]) < Code(b[k]))

\* line 60: the names of S in ascending order
Sorted(S) ==
    CHOOSE q \in Perms(S) :
        \A i \in 1..(Len(q) - 1) : NameLess(q[i], q[i + 1])

\* line 59: glob('*.zip') and glob('*.rar') match files and directories
\* alike, hidden ones too, and compare case-sensitively
Glob(files, dirs) ==
    {f \in files \cup dirs :
        EndsWith(f, <<".","z","i","p">>) \/ EndsWith(f, <<".","r","a","r">>)}

\* pathlib PurePath.suffix: from the last dot on; a leading or a trailing dot
\* starts no suffix
Suffix(name) ==
    LET d == LastDot(name) IN
    IF d > 1 /\ d < Len(name) THEN SubSeq(name, d, Len(name)) ELSE <<>>

\* lines 25-35, what extract_archive of mass_extractor can do with an entry:
\* <<returned value, extract_path created, files written under it>>.
\* Opening the archive can fail (nothing is created); extractall creates
\* extract_path before it reads the first member and can fail at any
\* member, the last one included; an archive without members creates nothing
MassOutcomes(name, dirs) ==
    IF Lower(Suffix(name)) \in {<<".","z","i","p">>, <<".","r","a","r">>}
    THEN IF name \in dirs
         THEN {<<FALSE, FALSE, {}>>}
         ELSE {<<TRUE, Content(name) # {}, Content(name)>>}
                \cup {<<FALSE, FALSE, {}>>}
                \cup (IF Content(name) = {} THEN {}
                      ELSE {<<FALSE, TRUE, w>> : w \in SUBSET Content(name)})
    ELSE {<<TRUE, FALSE, {}>>}

InitMass ==
    /\ entry = "mass"
    /\ source \in SmallSubsets(MassFiles, MaxSrc)
    /\ source_dirs = SourceDirs
    /\ \E pre \in SUBSET {Stem(f) : f \in Glob(source, source_dirs)} :
          /\ Cardinality(pre) <= 1
          /\ output = [d \in pre |-> {}]
    /\ tmp = {}
    /\ max_files = 0
    /\ dest_folder = NoFolder
    /\ out0 = DOMAIN output
    /\ pc = "glob"
    /\ IdleLocals
    /\ fpath = <<Root, <<>>>>
    /\ fcore = FALSE
    /\ skipped_count = 0
    /\ num_files \in {<<>>} \cup {<<n>> : n \in 0..MaxCap}
    /\ archive_files = <<>>
    /\ passed = <<>>

\* what no step of extract_archives changes
massFrame ==
    <<entry, fpath, fcore, num_files, source, source_dirs, tmp, max_files,
      all_core_archives, dest_folder, run, calls, ended, succ, top_outcome,
      top_failed, out0, rxVars, mvVars>>

\* lines 52-67: list the archives, sort them, reset the counters
MassStart ==
    /\ pc = "glob"
    /\ archive_files' = Sorted(Glob(source, source_dirs))
    /\ processed_count' = 0
    /\ skipped_count' = 0
    /\ idx' = 1
    /\ pc' = "each"
    /\ UNCHANGED <<massFrame, output, passed, abort_cause>>

\* lines 71-78: the target subfolder exists, continue
MassSkip ==
    /\ pc = "each"
    /\ idx <= Len(archive_files)
    /\ DestExists(output, Stem(archive_files[idx]))
    /\ skipped_count' = skipped_count + 1
    /\ idx' = idx + 1
    /\ UNCHANGED <<massFrame, output, processed_count, archive_files, passed,
                   pc, abort_cause>>

\* lines 80-84: extract the archive, count it when extract_archive returned
\* True, then compare the count with num_files; the comparison of an int
\* with None raises TypeError
MassExtract ==
    /\ pc = "each"
    /\ idx <= Len(archive_files)
    /\ ~DestExists(output, Stem(archive_files[idx]))
    /\ \E r \in MassOutcomes(archive_files[idx], source_dirs) :
          /\ passed' = Append(passed, archive_files[idx])
          /\ output' = IF ~r[2] THEN output
                        ELSE [d \in DOMAIN output \cup {Stem(archive_files[idx])} |->
                                IF d \in DOMAIN output THEN output[d] ELSE r[3]]
          /\ processed_count' = IF r[1] THEN processed_count + 1
                                         ELSE processed_count
    /\ IF num_files = <<>>
       THEN pc' = "raised" /\ abort_cause' = "compare" /\ idx' = idx
       ELSE /\ pc' = IF processed_count' >= num_files[1] THEN "returned" ELSE "each"
            /\ idx' = IF processed_count' >= num_files[1] THEN idx ELSE idx + 1
            /\ abort_cause' = abort_cause
    /\ UNCHANGED <<massFrame, skipped_count, archive_files>>

\* line 69 exhausted, line 86: return the two counters
MassReturn ==
    /\ pc = "each"
    /\ idx > Len(archive_files)
    /\ pc' = "returned"
    /\ UNCHANGED <<massFrame, output, processed_count, idx, massVars,
                   abort_cause>>

MassNext == MassStart \/ MassSkip \/ MassExtract \/ MassReturn

(***************************************************************************)
(* Specifications                                                          *)
(***************************************************************************)
Resolver == ResolverEnter \/ ResolverScan \/ ResolverStep \/ ResolverRaise

Relocator ==
    RelocateEnter \/ RelocateSkip \/ RelocateMove \/ RelocateRaise
        \/ RelocateReturn

Next ==
    \/ MainStart \/ LoopExit \/ CapBreak \/ SkipExisting \/ Prepare
    \/ PrepareRaise \/ ExtractTop \/ Cleanup \/ Rerun
    \/ Resolver
    \/ Relocator

\* runs of main
Spec == InitMain /\ [][Next]_vars

\* direct calls of recursively_extract
SpecResolve == InitResolve /\ [][Resolver]_vars

\* direct calls of move_non_archives
SpecRelocate == InitRelocate /\ [][Relocator]_vars

\* direct calls of is_core_archive
SpecClassify == InitClassify /\ [][Classify]_vars

\* calls of mass_extractor.extract_archives
SpecMass == InitMass /\ [][MassNext]_vars

TypeOK ==
    /\ entry \in {"main", "resolve", "relocate", "classify", "mass"}
    /\ source \subseteq SourceFiles \cup MassFiles
    /\ source_dirs \subseteq SourceDirs
    /\ tmp \subseteq AllPaths
    /\ \A d \in DOMAIN output : output[d] \subseteq AllPaths
    /\ max_files \in 0..(MaxCap + 1)
    /\ processed_count \in Nat
    /\ idx \in 1..(Len(all_core_archives) + Len(archive_files) + 1)
    /\ num_files \in {<<>>} \cup {<<n>> : n \in 0..(MaxCap + 1)}
    /\ archives \subseteq AllPaths
    /\ todo \subseteq AllPaths
    /\ run \in 1..(MaxRuns + 1)
    /\ passes \in 0..(MaxPasses + 1)
    /\ pc \in {"start", "loop", "extract_top", "resolve", "scan", "rx",
               "relocate", "move", "cleanup", "done", "aborted", "returned",
               "raised", "classify", "glob", "each"}
    /\ fcore \in BOOLEAN

(***************************************************************************)
(* Properties                                                              *)
(***************************************************************************)
\* the files of a directory that the classifier marks core
CoreFiles(dir) == {f \in dir : is_core_archive(NameOf(f))}

\* the files of a directory that match the segment filter
SegmentFiles(dir) == {f \in dir : skip_regex_search(NameOf(f))}

\* C1: recursively_extract called on a workspace holding only a.zip (which
\* holds b.rar, which holds c.txt), every extraction and unlink succeeding,
\* returns with c.txt in the destination and no core archive in the workspace.
C1_NestedResolution ==
    (/\ entry = "resolve"
     /\ rstate = "returned"
     /\ rx0 = {<<Root, a_zip>>}
     /\ ~ext_failed
     /\ ~del_failed)
    => (/\ \E f \in output[dest_folder] : NameOf(f) = c_txt
        /\ CoreFiles(tmp) = {})

\* C2: when main has run the pipeline on a top-level archive and every
\* extraction succeeded, the destination subfolder holds no core archive and
\* no split segment.
C2_DestinationLayout ==
    (/\ entry = "main"
     /\ pc = "cleanup"
     /\ top_outcome = "ok"
     /\ ~ext_failed)
    => (/\ CoreFiles(output[dest_folder]) = {}
        /\ SegmentFiles(output[dest_folder]) = {})

\* C3: whenever recursively_extract has returned, the workspace holds no file
\* that the classifier marks core, whatever it held and whatever the
\* extractions and unlinks did.
C3_NoCoreAfterResolve ==
    rstate = "returned" => CoreFiles(tmp) = {}

\* C3 witness: a call that started with core archives, met a failing
\* extraction and a failing unlink, and returned
C3_Witness ==
    /\ rstate = "returned"
    /\ CoreFiles(rx0) # {}
    /\ ext_failed
    /\ del_failed

\* a later run that follows a run of main that printed its summary
AfterFinishedRun ==
    /\ entry = "main"
    /\ run >= 2
    /\ pc # "start"
    /\ Len(ended) >= run - 1

\* C4 as stated: whatever max_count is, a run of main that follows a run
\* that printed its summary, over the same directories, processes nothing.
C4_SecondRunProcessesNothing ==
    (AfterFinishedRun /\ ended[run - 1] \in {"exhausted", "cap"})
    => (processed_count = 0 /\ calls = {})

\* C4 amended: a run of main that follows a run which went through its
\* whole list of top-level archives (the cap did not stop it) processes
\* nothing and invokes no extraction.
C4_SecondRunAfterFullRun ==
    (AfterFinishedRun /\ ended[run - 1] = "exhausted")
    => (processed_count = 0 /\ calls = {})

\* C4 witness: two archives and no cap; the first run went through both and
\* the second run has printed its summary
C4_Witness ==
    /\ run = 2
    /\ pc = "done"
    /\ ended = <<"exhausted", "exhausted">>
    /\ max_files = 0
    /\ Len(all_core_archives) = 2
    /\ Cardinality(DOMAIN output) = 2
    /\ processed_count = 0

\* C5: when the for loop of main is at an archive whose destination
\* subfolder exists, its next step invokes no extraction, leaves the
\* workspace and the output tree as they are and does not count the archive.
C5_SkipLeavesEverything ==
    [][(/\ pc = "loop"
        /\ idx <= Len(all_core_archives)
        /\ Stem(Current) \in DOMAIN output)
       => (/\ calls' = calls
           /\ tmp' = tmp
           /\ output' = output
           /\ processed_count' = processed_count
           /\ pc' \in {"loop", "done"})]_vars

\* C5 witness: the first archive of the list was skipped
C5_Witness ==
    /\ entry = "main"
    /\ run = 1
    /\ pc = "loop"
    /\ idx = 2
    /\ Stem(all_core_archives[1]) \in out0
    /\ processed_count = 0
    /\ calls = {}
    /\ tmp # {}

\* C6: no failure of an extraction ends the run of main.
C6_ExtractionFailureNeverAborts ==
    ~(pc = "aborted" /\ abort_cause = "extract")

\* C7 as stated: the successes never exceed max_count, the cap stops the
\* run only once max_count successes were produced (a failed extraction
\* takes no slot), and without a cap a finished run has an output
\* subfolder for every top-level archive.
C7_CapCountsSuccesses ==
    /\ (max_files > 0 => succ <= max_files)
    /\ (pc = "done" /\ ended[run] = "cap" => succ >= max_files)
    /\ (pc = "done" /\ max_files = 0 =>
           \A a \in TopLevel(source, source_dirs) : Stem(a) \in DOMAIN output)

\* C7 amended: the archives counted as processed, and so the successes,
\* never exceed a positive max_count; the cap stops the run exactly when
\* max_count archives were counted, an archive whose extraction exited
\* non-zero included; with max_count = 0 the cap never stops a run and a
\* finished run has an output subfolder for every top-level archive.
C7_CapCountsProcessed ==
    /\ (max_files > 0 => (processed_count <= max_files /\ succ <= max_files))
    /\ (pc = "done" /\ ended[run] = "cap" =>
           (max_files > 0 /\ processed_count = max_files))
    /\ (max_files = 0 => \A k \in 1..Len(ended) : ended[k] # "cap")
    /\ (pc = "done" /\ max_files = 0 =>
           \A a \in TopLevel(source, source_dirs) : Stem(a) \in DOMAIN output)

\* C7 witness: the cap stopped a run in which a counted archive had failed
C7_Witness ==
    /\ pc = "done"
    /\ ended[run] = "cap"
    /\ max_files = 1
    /\ processed_count = 1
    /\ succ = 0

\* recursively_extract runs under the scheduler of a sequential program: a
\* step that can be taken is taken
SpecResolveFair == SpecResolve /\ WF_vars(Resolver)

\* C8: as long as no unlink of the call has failed, the passes started never
\* exceed the core archives the workspace held at the call, every completed
\* pass leaves fewer core archives than it found, and the call ends.
C8_ResolverTerminates ==
    /\ [](~del_failed => passes <= Cardinality(CoreFiles(rx0)))
    /\ [][(pc = "rx" /\ pc' = "scan" /\ ~del_failed')
            => Cardinality(CoreFiles(tmp')) < pass_core]_vars
    /\ <>(del_failed \/ pc \in {"returned", "raised"})

\* C8 witness: a call on two core archives, one extraction failing, every
\* unlink succeeding, returned after one pass
C8_Witness ==
    /\ pc = "returned"
    /\ rstate = "returned"
    /\ Cardinality(CoreFiles(rx0)) = 2
    /\ passes = 1
    /\ ext_failed
    /\ ~del_failed

\* C9: while move_non_archives runs and after it has ended, every file the
\* workspace held at the call that matches the segment filter or that the
\* classifier marks core is still in the workspace.
C9_RelocatorExclusion ==
    mstate \in {"running", "finished", "raised"} =>
        \A f \in ws0 :
            (skip_regex_search(NameOf(f)) \/ is_core_archive(NameOf(f)))
                => f \in tmp

\* C9 witness: the relocator finished, moved a file, and left a core archive
\* that is no split segment
C9_Witness ==
    /\ mstate = "finished"
    /\ ws0 \ tmp # {}
    /\ \E f \in tmp : is_core_archive(NameOf(f)) /\ ~skip_regex_search(NameOf(f))

\* the source entries the classifier marks core, and their stems
CoreSourceNames == {a \in SourceFiles \cup SourceDirs : is_core_archive(a)}
StemOf == [a \in CoreSourceNames |-> Stem(a)]

\* C10: every top-level extraction is of a regular file of the source
\* directory that the classifier marks core; every output subfolder made
\* by the run is named after such a file; a source holding t.zip and the
\* stray segment t.r01 lists one archive, and a run over it into an output
\* without subfolders that prints its summary has processed exactly one.
C10_TopLevelSelection ==
    entry = "main" =>
        /\ \A c \in calls :
              c.top => (c.name \in source /\ c.name \in CoreSourceNames)
        /\ \A d \in DOMAIN output \ out0 :
              \E a \in source \cap CoreSourceNames : StemOf[a] = d
        /\ (source = {t_zip, t_r01} /\ pc # "start") =>
              /\ all_core_archives = <<t_zip>>
              /\ (pc = "done" /\ out0 = {}) => processed_count = 1

\* C10 witness: the run over t.zip and t.r01 printed its summary
C10_Witness ==
    /\ entry = "main"
    /\ source = {t_zip, t_r01}
    /\ pc = "done"
    /\ out0 = {}
    /\ processed_count = 1
    /\ DOMAIN output = {Stem(t_zip)}


\* the four endings the classifier is documented to accept
CoreEndings ==
    {<<".","r","a","r">>, <<".","z","i","p">>, <<".","7","z">>,
     <<".","7","z",".","0","0","1">>}

\* C11: once is_core_archive has returned for a path, its value is TRUE
\* exactly when the lower-cased name of the path ends with .rar, .zip, .7z or
\* .7z.001, whatever the directory of the path is.
C11_ClassifierTotal ==
    (entry = "classify" /\ pc = "returned") =>
        (fcore <=> \E e \in CoreEndings : EndsWith(Lower(NameOf(fpath)), e))

\* the files of a directory that move_non_archives is meant to move
Payload(dir) == {f \in dir : ~skip_regex_search(NameOf(f)) /\ ~is_core_archive(NameOf(f))}

\* C12: when move_non_archives has ended, with or without a failed move, at
\* most the one payload file whose move failed is still in the workspace:
\* every other payload file it was called on has been moved.
C12_MoveFailureIsolated ==
    (mstate \in {"finished", "raised"}) =>
        Cardinality(Payload(ws0) \cap tmp) <= 1

\* C16: move_non_archives never ends because a name is already taken in the
\* destination, and when it has returned every payload file of the workspace
\* it was called on is gone from the workspace and lies directly under the
\* destination.
C16_RelocationComplete ==
    /\ ~(mstate = "raised" /\ abort_cause = "move_exists")
    /\ (mstate = "finished") =>
          \A f \in Payload(ws0) :
              f \notin tmp /\ <<Root, NameOf(f)>> \in output[dest_folder]

\* C13: the destination subfolder of every archive whose top-level extraction
\* failed, in this run or an earlier one, exists (it is never removed again),
\* and a run started after the failure has not extracted that archive.
C13_PartialDestinationKept ==
    \A fa \in top_failed :
        /\ Stem(fa[2]) \in DOMAIN output
        /\ (fa[1] < run /\ pc # "start") =>
              \A c \in calls : ~(c.top /\ c.name = fa[2])

\* a second run has gone through the whole list, which holds an archive whose
\* extraction failed in the first run, and the second run called no extractor
C13_Witness ==
    /\ run = 2
    /\ pc = "done"
    /\ idx > Len(all_core_archives)
    /\ max_files = 0
    /\ calls = {}
    /\ \E fa \in top_failed :
          /\ fa[1] = 1
          /\ \E i \in 1..Len(all_core_archives) : all_core_archives[i] = fa[2]

\* C17: whenever main is about to extract a top-level archive into the
\* workspace the workspace is empty, and the files move_non_archives is
\* called on in main, hence the files it relocates, all come from the
\* top-level archive being processed.
C17_WorkspaceIsolation ==
    /\ (pc = "extract_top") => tmp = {}
    /\ (entry = "main" /\ mstate \in {"running", "finished", "raised"}) =>
          ws0 \subseteq Deep(Current)

\* the second archive of a run has been extracted and relocated, and a file
\* of it was moved, after the first archive had been processed
C17_Witness ==
    /\ entry = "main"
    /\ idx = 2
    /\ processed_count = 1
    /\ mstate = "finished"
    /\ \E f \in Payload(ws0) : f \notin tmp /\ f \in output[dest_folder]

\* C19: when an uncapped first run into an empty output directory has reached
\* its summary, extract_archive has been called on every core archive that
\* lies directly under the source directory.
C19_NoArchiveLost ==
    (entry = "main" /\ pc = "done" /\ run = 1 /\ max_files = 0 /\ out0 = {}) =>
        \A a \in TopLevel(source, source_dirs) :
            \E c \in calls : c.top /\ c.name = a

\* C20: no step of a run of main adds, removes or replaces an entry of the
\* source directory, and the top-level call of extract_archive only adds
\* files to the workspace: the source directory at the end of a run is the
\* one the run started on.
C20_SourceUntouched ==
    [][/\ source' = source
       /\ source_dirs' = source_dirs
       /\ (pc = "extract_top") => tmp \subseteq tmp']_vars

\* the archive being processed is still in the source directory after it was
\* extracted and after the resolver unlinked a nested archive of it
C20_Witness ==
    /\ entry = "main"
    /\ rstate = "returned"
    /\ top_outcome = "ok"
    /\ CoreFiles(rx0) \ tmp # {}
    /\ Current \in source

\* the names recursively_extract has passed to extract_archive
ResolverCalls == {c.name : c \in {x \in calls : ~x.top}}

\* C18: no step of recursively_extract adds a file to the workspace; it only
\* ever extracts files the workspace held when it was called, so never an
\* archive an extraction placed in the destination; when it has returned and
\* no deletion failed it has made exactly one extractor call per core archive
\* of that workspace, in at most one pass (two scans); and when that
\* workspace held no core archive it has returned after its first scan with
\* no extractor call, the workspace and the destination as they were.
C18_SinglePass ==
    /\ [][(rstate = "running") => tmp' \subseteq tmp]_vars
    /\ [](ResolverCalls \subseteq {NameOf(f) : f \in CoreFiles(rx0)})
    /\ []((rstate = "returned" /\ ~del_failed) =>
             /\ n_ext = Cardinality(CoreFiles(rx0))
             /\ ResolverCalls = {NameOf(f) : f \in CoreFiles(rx0)}
             /\ passes <= 1)
    /\ []((rstate = "returned" /\ CoreFiles(rx0) = {}) =>
             /\ n_ext = 0
             /\ passes = 0
             /\ tmp = rx0
             /\ output[dest_folder] = {})

\* the call has returned from a workspace of two core archives after two
\* extractor calls, and one of them left a core archive in the destination
C18_Witness ==
    /\ rstate = "returned"
    /\ ~del_failed
    /\ Cardinality(CoreFiles(rx0)) = 2
    /\ n_ext = 2
    /\ CoreFiles(output[dest_folder]) # {}

\* C15: an iteration of the resolver's loop whose unlink failed leaves the
\* function running, with the remaining candidates of the pass still to be
\* extracted; a scan that follows a pass finds every core archive the
\* workspace still holds, the undeleted one included; and a call whose
\* workspace keeps some core archive for ever never returns.
C15_DeleteFailureLoops ==
    /\ [][(pc = "rx" /\ archives' # archives /\ tmp' = tmp) =>
             /\ rstate' = "running"
             /\ del_failed'
             /\ something_extracted'
             /\ pc' = IF archives' = {} THEN "scan" ELSE "rx"]_vars
    /\ [][(pc = "scan" /\ something_extracted /\ CoreFiles(tmp) # {}) =>
             (pc' = "rx" /\ archives' = CoreFiles(tmp))]_vars
    /\ \A f \in CoreFiles(WsPaths) :
          [](f \in tmp) => [](rstate # "returned")

\* a candidate whose deletion failed has been found by a later scan and
\* extracted again
C15_Witness ==
    /\ rstate = "running"
    /\ del_failed
    /\ passes >= 2
    /\ n_ext > Cardinality(CoreFiles(rx0))
    /\ CoreFiles(rx0) \cap tmp # {}

\* the names of a sequence are in strictly ascending order
Ascending(q) == \A i \in 1..(Len(q) - 1) : NameLess(q[i], q[i + 1])

\* C14: extract_archives called with num_files None never ends by an
\* exception, and once it has returned it has gone through the whole list:
\* every listed archive was either skipped because its target subfolder
\* existed or passed to extract_archive, in ascending order of the names.
C14_NoneProcessesAll ==
    (entry = "mass" /\ num_files = <<>>) =>
        /\ pc # "raised"
        /\ (pc = "returned") =>
              /\ idx > Len(archive_files)
              /\ Len(passed) + skipped_count = Len(archive_files)
              /\ Ascending(passed)
              /\ \A i \in 1..Len(passed) : passed[i] \in Glob(source, source_dirs)

====
